---- MODULE Spec2Model ----
(***************************************************************************)
(* Process supervision in zerobyte_tauri.                                  *)
(*                                                                         *)
(* Three entry points of the repository are modelled, one per behaviour:   *)
(*   "service"    src-tauri/src/bin/zerobyte-service.rs  run_service       *)
(*   "host"       src-tauri/src/lib.rs  start_sidecar / stop_sidecar       *)
(*   "controller" src-tauri/src/commands/service.rs  install / uninstall / *)
(*                start / stop of the Windows service                      *)
(* prog says which one a behaviour runs; the other programs' variables     *)
(* keep their initial values.                                              *)
(*                                                                         *)
(* Every blocking call of the code (a sleep, an HTTP request, a lock, a    *)
(* process wait) is a step of its own, so that the other thread of the     *)
(* program (the service control handler, the quit handler, the detached    *)
(* elevated script) and the child process interleave with it.              *)
(***************************************************************************)
EXTENDS Naturals, Sequences, FiniteSets

VARIABLES
    prog,            \* which entry point runs: "service", "host", "controller",
                     \* "probe" (the is_service_running command)
    debug_build,     \* cfg(debug_assertions) of the host build
    \* ---- the operating system: child processes and the backend's endpoints
    procs,           \* procs[i]: status of the i-th child spawned by the program
    shutdown_reqs,   \* number of POST /api/shutdown requests sent so far
    kills,           \* number of kill() calls made so far
    \* ---- the readiness polling loop (wait_for_server, start_server_process)
    attempt,         \* the loop variable `attempt`
    max_attempts,    \* the loop's bound (0: no poll started yet)
    probes,          \* probes issued by the current poll
    fails,           \* failed probes of the current poll
    poll_ret,        \* "none" while polling, then "true" / "false"
    \* ---- zerobyte-service.rs: run_service
    spc,             \* position of the service thread
    reports,         \* the ServiceState values reported to the SCM, in order
    child,           \* start_server_process's local `child` (0: none)
    server_process,  \* run_service's `server_process` (index into procs, 0: none)
    restart_count,   \* run_service's `restart_count`
    shutdown_rx,     \* messages waiting in the shutdown channel
    stops_sent,      \* Stop controls handled so far
    event,           \* the last ServerEvent wait_for_shutdown_or_crash returned
    sig_in_wait,     \* a Stop was sent during the current wait_for_shutdown_or_crash
    relaunches,      \* calls of start_server_process from the crash branch
    exit_reason,     \* why the main loop was left
    s_result,        \* what run_service returned
    \* ---- lib.rs: AppState, start_sidecar, stop_sidecar
    hpc,             \* position of the task running start_sidecar
    qpc,             \* position of the caller of stop_sidecar
    using_service,   \* AppState.using_service
    backend_port,    \* AppState.backend_port
    sidecar_handle,  \* AppState.sidecar_handle (index into procs, 0: None)
    handle_lock,     \* holder of the sidecar_handle mutex
    h_child,         \* start_sidecar's local `child` (0: none)
    taken,           \* stop_sidecar's local `child` taken from the handle
    svc_probe,       \* outcome of start_sidecar's is_service_running probe
    h_result,        \* what start_sidecar returned
    stop_calls,      \* stop_sidecar calls begun
    stops_done,      \* stop_sidecar calls returned (all return Ok)
    \* ---- commands/service.rs: one privileged operation and its elevated script
    op,              \* the command: "install", "uninstall", "start", "stop"
    cpc,             \* position of the command
    resource_dir_ok, \* app.path().resource_dir() resolves
    exe_exists,      \* binaries/zerobyte-service.exe exists
    scm_trace,       \* the states the service went through in the service manager
    marked,          \* the service is marked for deletion
    script_exists,   \* the batch script is in the temp directory
    log_exists,      \* the operation's log file exists
    log_marks,       \* which of "ERROR:" and the success message the log holds
    epc,             \* position of the detached elevated script
    poll_i,          \* iterations done of `for _ in 0..10`
    elev_requests,   \* calls of run_elevated
    log_reads,       \* reads of the log by the completion loop
    queries,         \* calls of get_service_status
    seen,            \* the status the last get_service_status call returned
    c_result,        \* what the command returned
    \* ---- commands/service.rs: the is_service_running command
    p_outcome,       \* what became of the command's request ("client_err": none sent)
    p_result,        \* what the command returned
    \* ---- commands/mod.rs: the get_backend_url command
    url_result       \* the URL the last get_backend_url call returned

envVars  == <<procs, shutdown_reqs, kills>>
pollVars == <<attempt, max_attempts, probes, fails, poll_ret>>
svcVars  == <<spc, reports, child, server_process, restart_count, shutdown_rx,
              stops_sent, event, sig_in_wait, relaunches, exit_reason, s_result>>
hostVars == <<hpc, qpc, using_service, backend_port, sidecar_handle, handle_lock,
              h_child, taken, svc_probe, h_result, stop_calls, stops_done>>
ctlVars  == <<op, cpc, resource_dir_ok, exe_exists, scm_trace, marked, script_exists,
              log_exists, log_marks, epc, poll_i, elev_requests, log_reads, queries,
              seen, c_result>>
cmdVars  == <<p_outcome, p_result, url_result>>
vars     == <<prog, debug_build, envVars, pollVars, svcVars, hostVars, ctlVars,
              cmdVars>>

----------------------------------------------------------------------------
(* Program constants *)

MAX_RESTART_ATTEMPTS == 3
SERVICE_READY_ATTEMPTS == 30
SIDECAR_READY_ATTEMPTS == 30
DEV_PRECHECK_ATTEMPTS == 30
RELEASE_PRECHECK_ATTEMPTS == 2
SIDECAR_PORT == 4096
SERVICE_PORT == 4097
SCRIPT_WAIT_ITERATIONS == 10

(* Bounds of the model *)

MaxStopSignals == 1
MaxStopCalls == 2

----------------------------------------------------------------------------
(* The environment *)

\* What one HTTP request can come to: a success status, another status, or a
\* transport error (connection refused, timeout).
HttpOutcomes == {"success", "non_success", "error"}

\* A probe is ready only on a success status.
ProbeReady(r) == r = "success"

Last(s) == s[Len(s)]

\* A running child exits on its own (a crash, or the end of a graceful shutdown).
ChildExit ==
    /\ \E i \in 1..Len(procs) :
        /\ procs[i] = "running"
        /\ procs' = [procs EXCEPT ![i] = "exited"]
    /\ UNCHANGED <<prog, debug_build, cmdVars, ctlVars, shutdown_reqs, kills, pollVars, svcVars, hostVars>>

\* kill() of child i: a running child is signalled, any other stays as it is.
Killed(i) == [procs EXCEPT ![i] = IF @ = "running" THEN "killed" ELSE @]

\* The exit of child i is observed (try_wait returned Some, or wait returned).
Reaped(i) == [procs EXCEPT ![i] = "reaped"]

----------------------------------------------------------------------------
(* The readiness polling loop *)

\* LastIteration with the range one value too long (1..=max_attempts + 1).
LastIteration_late(a, n) == a > n

\* for attempt in 1..=max_attempts: the body ran for the last value.
LastIteration(a, n) == a >= n

PollStart(n) ==
    /\ attempt' = 1
    /\ max_attempts' = n
    /\ probes' = 0
    /\ fails' = 0
    /\ poll_ret' = "none"

\* One probe of the loop with outcome r; done says the loop ends with this probe.
PollProbe(r, done) ==
    /\ probes' = probes + 1
    /\ fails' = IF ProbeReady(r) THEN fails ELSE fails + 1
    /\ attempt' = IF done THEN attempt ELSE attempt + 1
    /\ poll_ret' = IF ProbeReady(r) THEN "true" ELSE IF done THEN "false" ELSE "none"
    /\ UNCHANGED max_attempts

----------------------------------------------------------------------------
(* zerobyte-service.rs: the service control handler *)

\* The SCM sends Stop only while the service accepts it: controls_accepted is
\* STOP in the Running report alone.
AcceptsStop == reports # <<>> /\ Last(reports) = "Running"

InWait == spc \in {"try_recv", "try_wait", "sleep_monitor"}

\* SendStop that completes only while the loop is in
\* wait_for_shutdown_or_crash.
SendStop_waits ==
    /\ prog = "service"
    /\ AcceptsStop
    /\ InWait
    /\ stops_sent < MaxStopSignals
    /\ stops_sent' = stops_sent + 1
    /\ shutdown_rx' = shutdown_rx + 1
    /\ sig_in_wait' = (sig_in_wait \/ InWait)
    /\ UNCHANGED <<prog, debug_build, cmdVars, ctlVars, envVars, pollVars, hostVars>>
    /\ UNCHANGED <<spc, reports, child, server_process, restart_count, event,
                   relaunches, exit_reason, s_result>>

\* event_handler, ServiceControl::Stop: send on the channel and return. Once
\* run_service has returned the receiver is dropped: the send fails and its
\* result is ignored (`let _ =`).
SendStop ==
    /\ prog = "service"
    /\ AcceptsStop
    /\ stops_sent < MaxStopSignals
    /\ stops_sent' = stops_sent + 1
    /\ shutdown_rx' = IF spc = "returned" THEN shutdown_rx ELSE shutdown_rx + 1
    /\ sig_in_wait' = (sig_in_wait \/ InWait)
    /\ UNCHANGED <<prog, debug_build, cmdVars, ctlVars, envVars, pollVars, hostVars>>
    /\ UNCHANGED <<spc, reports, child, server_process, restart_count, event,
                   relaunches, exit_reason, s_result>>

----------------------------------------------------------------------------
(* zerobyte-service.rs: run_service *)

\* start_server_process is called from two places: before Running is reported
\* (its error returns from run_service by `?`) and from the crash branch (its
\* error breaks the loop).
InitialLaunch == reports = <<"StartPending">>

\* ExceedsBound with the bound one too high: a fourth relaunch.
ExceedsBound_late(rc) == rc > MAX_RESTART_ATTEMPTS + 1

\* ExceedsBound with >= for >: gives up on the third crash.
ExceedsBound_early(rc) == rc >= MAX_RESTART_ATTEMPTS

\* restart_count > MAX_RESTART_ATTEMPTS
ExceedsBound(rc) == rc > MAX_RESTART_ATTEMPTS

\* Register the handler and report StartPending. register(..)? and
\* set_service_status(..)? each return their error from run_service, with
\* nothing reported.
SvcStart ==
    /\ prog = "service"
    /\ spc = "start"
    /\ \E o \in {"register_err", "report_err", "ok"} :
        IF o = "ok"
        THEN /\ reports' = Append(reports, "StartPending")
             /\ spc' = "find_exe"
             /\ UNCHANGED s_result
        ELSE /\ spc' = "returned"
             /\ s_result' = "Err"
             /\ UNCHANGED reports
    /\ UNCHANGED <<prog, debug_build, cmdVars, ctlVars, envVars, pollVars, hostVars>>
    /\ UNCHANGED <<child, server_process, restart_count, shutdown_rx, stops_sent,
                   event, sig_in_wait, relaunches, exit_reason>>

\* find_server_executable()?: the first existing candidate, or an error that
\* returns from run_service.
SvcFindExe ==
    /\ prog = "service"
    /\ spc = "find_exe"
    /\ \E found \in BOOLEAN :
        IF found
        THEN spc' = "spawn" /\ s_result' = s_result
        ELSE spc' = "returned" /\ s_result' = "Err"
    /\ UNCHANGED <<prog, debug_build, cmdVars, ctlVars, envVars, pollVars, hostVars>>
    /\ UNCHANGED <<reports, child, server_process, restart_count, shutdown_rx,
                   stops_sent, event, sig_in_wait, relaunches, exit_reason>>

\* SvcLaunchErr that tries the relaunch again after the backoff.
SvcLaunchErr_retry ==
    /\ child' = 0
    /\ IF InitialLaunch
       THEN spc' = "returned" /\ s_result' = "Err" /\ exit_reason' = exit_reason
       ELSE spc' = "backoff" /\ s_result' = s_result /\ exit_reason' = exit_reason

\* start_server_process returned Err: the local `child`, if any, is dropped (a
\* dropped std::process::Child is neither killed nor waited for).
SvcLaunchErr ==
    /\ child' = 0
    /\ IF InitialLaunch
       THEN spc' = "returned" /\ s_result' = "Err" /\ exit_reason' = exit_reason
       ELSE spc' = "report_stop_pending" /\ s_result' = s_result
            /\ exit_reason' = "relaunch_failed"

\* start_server_process up to the polling loop: create the log files, spawn the
\* child, build the HTTP client. Each of the three can fail.
SvcSpawn ==
    /\ prog = "service"
    /\ spc = "spawn"
    /\ \E o \in {"log_err", "spawn_err", "client_err", "spawned"} :
        CASE o \in {"log_err", "spawn_err"} ->
                /\ SvcLaunchErr
                /\ UNCHANGED <<procs, pollVars>>
          [] o = "client_err" ->
                /\ procs' = Append(procs, "running")
                /\ SvcLaunchErr
                /\ UNCHANGED pollVars
          [] o = "spawned" ->
                /\ procs' = Append(procs, "running")
                /\ child' = Len(procs) + 1
                /\ PollStart(SERVICE_READY_ATTEMPTS)
                /\ spc' = "poll"
                /\ UNCHANGED <<s_result, exit_reason>>
    /\ UNCHANGED <<prog, debug_build, cmdVars, ctlVars, shutdown_reqs, kills, hostVars>>
    /\ UNCHANGED <<reports, server_process, restart_count, shutdown_rx, stops_sent,
                   event, sig_in_wait, relaunches>>

\* One iteration of `for attempt in 1..=30`: a success returns Ok(child), a
\* failure sleeps 500 ms unless it was the last attempt; after the loop, Err.
SvcPoll ==
    /\ prog = "service"
    /\ spc = "poll"
    /\ \E r \in HttpOutcomes :
        IF ProbeReady(r)
        THEN /\ PollProbe(r, TRUE)
             /\ server_process' = child
             /\ child' = 0
             /\ spc' = IF InitialLaunch THEN "report_running" ELSE "try_recv"
             /\ sig_in_wait' = IF InitialLaunch THEN sig_in_wait ELSE FALSE
             /\ UNCHANGED <<s_result, exit_reason>>
        ELSE IF LastIteration(attempt, max_attempts)
        THEN /\ PollProbe(r, TRUE)
             /\ SvcLaunchErr
             /\ UNCHANGED <<server_process, sig_in_wait>>
        ELSE /\ PollProbe(r, FALSE)
             /\ UNCHANGED <<spc, child, server_process, sig_in_wait, s_result,
                            exit_reason>>
    /\ UNCHANGED <<prog, debug_build, cmdVars, ctlVars, envVars, hostVars>>
    /\ UNCHANGED <<reports, restart_count, shutdown_rx, stops_sent, event,
                   relaunches>>

\* Report Running (controls_accepted: STOP) and enter the loop with
\* restart_count = 0. set_service_status(..)? returns its error from
\* run_service: server_process is dropped, the child neither killed nor waited
\* for.
SvcReportRunning ==
    /\ prog = "service"
    /\ spc = "report_running"
    /\ \E ok \in BOOLEAN :
        IF ok
        THEN /\ reports' = Append(reports, "Running")
             /\ restart_count' = 0
             /\ sig_in_wait' = FALSE
             /\ spc' = "try_recv"
             /\ UNCHANGED s_result
        ELSE /\ spc' = "returned"
             /\ s_result' = "Err"
             /\ UNCHANGED <<reports, restart_count, sig_in_wait>>
    /\ UNCHANGED <<prog, debug_build, cmdVars, ctlVars, envVars, pollVars, hostVars>>
    /\ UNCHANGED <<child, server_process, shutdown_rx, stops_sent, event,
                   relaunches, exit_reason>>

\* SvcTryRecv that leaves a pending signal in the channel.
SvcTryRecv_deaf ==
    /\ prog = "service"
    /\ spc = "try_recv"
    /\ spc' = "try_wait"
    /\ UNCHANGED <<shutdown_rx, event, exit_reason>>
    /\ UNCHANGED <<prog, debug_build, cmdVars, ctlVars, envVars, pollVars, hostVars>>
    /\ UNCHANGED <<reports, child, server_process, restart_count, stops_sent,
                   sig_in_wait, relaunches, s_result>>

\* wait_for_shutdown_or_crash: shutdown_rx.try_recv(). The sender lives in the
\* registered handler, so the channel is never disconnected.
SvcTryRecv ==
    /\ prog = "service"
    /\ spc = "try_recv"
    /\ IF shutdown_rx > 0
       THEN /\ shutdown_rx' = shutdown_rx - 1
            /\ event' = "Shutdown"
            /\ exit_reason' = "shutdown"
            /\ spc' = "report_stop_pending"
       ELSE /\ spc' = "try_wait"
            /\ UNCHANGED <<shutdown_rx, event, exit_reason>>
    /\ UNCHANGED <<prog, debug_build, cmdVars, ctlVars, envVars, pollVars, hostVars>>
    /\ UNCHANGED <<reports, child, server_process, restart_count, stops_sent,
                   sig_in_wait, relaunches, s_result>>

\* SvcTryWait that gives up on a failed query.
SvcTryWait_fatal ==
    /\ prog = "service"
    /\ spc = "try_wait"
    /\ \E io_err \in BOOLEAN :
        IF io_err
        THEN /\ event' = event
             /\ spc' = "returned"
             /\ UNCHANGED procs
        ELSE IF procs[server_process] # "running"
        THEN /\ event' = "Crashed(code)"
             /\ spc' = "crashed"
             /\ procs' = Reaped(server_process)
        ELSE /\ spc' = "sleep_monitor"
             /\ UNCHANGED <<event, procs>>
    /\ UNCHANGED <<prog, debug_build, cmdVars, ctlVars, shutdown_reqs, kills, pollVars, hostVars>>
    /\ UNCHANGED <<reports, child, server_process, restart_count, shutdown_rx,
                   stops_sent, sig_in_wait, relaunches, exit_reason, s_result>>

\* wait_for_shutdown_or_crash: server_process.try_wait(). An exited child gives
\* Crashed(code), a failed query Crashed(None), a running child the 1 s sleep.
SvcTryWait ==
    /\ prog = "service"
    /\ spc = "try_wait"
    /\ \E io_err \in BOOLEAN :
        IF io_err
        THEN /\ event' = "Crashed(None)"
             /\ spc' = "crashed"
             /\ UNCHANGED procs
        ELSE IF procs[server_process] # "running"
        THEN /\ event' = "Crashed(code)"
             /\ spc' = "crashed"
             /\ procs' = Reaped(server_process)
        ELSE /\ spc' = "sleep_monitor"
             /\ UNCHANGED <<event, procs>>
    /\ UNCHANGED <<prog, debug_build, cmdVars, ctlVars, shutdown_reqs, kills, pollVars, hostVars>>
    /\ UNCHANGED <<reports, child, server_process, restart_count, shutdown_rx,
                   stops_sent, sig_in_wait, relaunches, exit_reason, s_result>>

\* thread::sleep(1 s), then the next iteration of the wait loop.
SvcSleepMonitor ==
    /\ prog = "service"
    /\ spc = "sleep_monitor"
    /\ spc' = "try_recv"
    /\ UNCHANGED <<prog, debug_build, cmdVars, ctlVars, envVars, pollVars, hostVars>>
    /\ UNCHANGED <<reports, child, server_process, restart_count, shutdown_rx,
                   stops_sent, event, sig_in_wait, relaunches, exit_reason, s_result>>

\* CountCrash that starts the count again on every crash.
CountCrash_decay(rc) == 1

\* restart_count += 1
CountCrash(rc) == rc + 1

\* ServerEvent::Crashed: count the crash, give up past the bound.
SvcCrashed ==
    /\ prog = "service"
    /\ spc = "crashed"
    /\ restart_count' = CountCrash(restart_count)
    /\ IF ExceedsBound(CountCrash(restart_count))
       THEN spc' = "report_stop_pending" /\ exit_reason' = "gave_up"
       ELSE spc' = "backoff" /\ exit_reason' = exit_reason
    /\ UNCHANGED <<prog, debug_build, cmdVars, ctlVars, envVars, pollVars, hostVars>>
    /\ UNCHANGED <<reports, child, server_process, shutdown_rx, stops_sent, event,
                   sig_in_wait, relaunches, s_result>>

\* SvcBackoff that reports StartPending again before the relaunch.
SvcBackoff_reports ==
    /\ prog = "service"
    /\ spc = "backoff"
    /\ relaunches' = relaunches + 1
    /\ reports' = Append(reports, "StartPending")
    /\ spc' = "spawn"
    /\ UNCHANGED <<prog, debug_build, cmdVars, ctlVars, envVars, pollVars, hostVars>>
    /\ UNCHANGED <<child, server_process, restart_count, shutdown_rx,
                   stops_sent, event, sig_in_wait, exit_reason, s_result>>

\* thread::sleep(RESTART_DELAY_SECS), then start_server_process again.
SvcBackoff ==
    /\ prog = "service"
    /\ spc = "backoff"
    /\ relaunches' = relaunches + 1
    /\ spc' = "spawn"
    /\ UNCHANGED <<prog, debug_build, cmdVars, ctlVars, envVars, pollVars, hostVars>>
    /\ UNCHANGED <<reports, child, server_process, restart_count, shutdown_rx,
                   stops_sent, event, sig_in_wait, exit_reason, s_result>>

\* After the loop: report StopPending. set_service_status(..)? returns its
\* error from run_service before stop_server_gracefully is called.
SvcReportStopPending ==
    /\ prog = "service"
    /\ spc = "report_stop_pending"
    /\ \E ok \in BOOLEAN :
        IF ok
        THEN /\ reports' = Append(reports, "StopPending")
             /\ spc' = "stop_request"
             /\ UNCHANGED s_result
        ELSE /\ spc' = "returned"
             /\ s_result' = "Err"
             /\ UNCHANGED reports
    /\ UNCHANGED <<prog, debug_build, cmdVars, ctlVars, envVars, pollVars, hostVars>>
    /\ UNCHANGED <<child, server_process, restart_count, shutdown_rx, stops_sent,
                   event, sig_in_wait, relaunches, exit_reason>>

\* stop_server_gracefully: with a client, POST /api/shutdown (whatever comes of
\* it) and then the 3 s grace sleep; without one, straight to the process check.
SvcStopRequest ==
    /\ prog = "service"
    /\ spc = "stop_request"
    /\ \E client_ok \in BOOLEAN :
        IF client_ok
        THEN /\ \E r \in HttpOutcomes : shutdown_reqs' = shutdown_reqs + 1
             /\ spc' = "stop_grace"
        ELSE /\ spc' = "stop_check"
             /\ UNCHANGED shutdown_reqs
    /\ UNCHANGED <<prog, debug_build, cmdVars, ctlVars, procs, kills, pollVars, hostVars>>
    /\ UNCHANGED <<reports, child, server_process, restart_count, shutdown_rx,
                   stops_sent, event, sig_in_wait, relaunches, exit_reason, s_result>>

\* thread::sleep(3 s)
SvcStopGrace ==
    /\ prog = "service"
    /\ spc = "stop_grace"
    /\ spc' = "stop_check"
    /\ UNCHANGED <<prog, debug_build, cmdVars, ctlVars, envVars, pollVars, hostVars>>
    /\ UNCHANGED <<reports, child, server_process, restart_count, shutdown_rx,
                   stops_sent, event, sig_in_wait, relaunches, exit_reason, s_result>>

\* stop_server_gracefully: server_process.try_wait(). Exited: nothing to do;
\* still running: on to the kill and the wait; query failed: on to the kill
\* alone.
SvcStopCheck ==
    /\ prog = "service"
    /\ spc = "stop_check"
    /\ \E io_err \in BOOLEAN :
        IF io_err
        THEN /\ spc' = "stop_kill_err"
             /\ UNCHANGED procs
        ELSE IF procs[server_process] # "running"
        THEN /\ procs' = Reaped(server_process)
             /\ spc' = "report_stopped"
        ELSE /\ spc' = "stop_kill"
             /\ UNCHANGED procs
    /\ UNCHANGED <<prog, debug_build, cmdVars, ctlVars, shutdown_reqs, kills, pollVars, hostVars>>
    /\ UNCHANGED <<reports, child, server_process, restart_count, shutdown_rx,
                   stops_sent, event, sig_in_wait, relaunches, exit_reason, s_result>>

\* let _ = server_process.kill(): a call of its own after try_wait, so the
\* child may have exited in between. After Ok(None) the wait follows; after
\* Err the routine returns.
SvcStopKill ==
    /\ prog = "service"
    /\ spc \in {"stop_kill", "stop_kill_err"}
    /\ procs' = Killed(server_process)
    /\ kills' = kills + 1
    /\ spc' = IF spc = "stop_kill" THEN "stop_wait" ELSE "report_stopped"
    /\ UNCHANGED <<prog, debug_build, cmdVars, ctlVars, shutdown_reqs, pollVars, hostVars>>
    /\ UNCHANGED <<reports, child, server_process, restart_count, shutdown_rx,
                   stops_sent, event, sig_in_wait, relaunches, exit_reason, s_result>>

\* server_process.wait() after the kill.
SvcStopWait ==
    /\ prog = "service"
    /\ spc = "stop_wait"
    /\ procs' = Reaped(server_process)
    /\ spc' = "report_stopped"
    /\ UNCHANGED <<prog, debug_build, cmdVars, ctlVars, shutdown_reqs, kills, pollVars, hostVars>>
    /\ UNCHANGED <<reports, child, server_process, restart_count, shutdown_rx,
                   stops_sent, event, sig_in_wait, relaunches, exit_reason, s_result>>

\* Report Stopped and return Ok; set_service_status(..)? returns its error
\* instead, with StopPending as the last report.
SvcReportStopped ==
    /\ prog = "service"
    /\ spc = "report_stopped"
    /\ \E ok \in BOOLEAN :
        IF ok
        THEN reports' = Append(reports, "Stopped") /\ s_result' = "Ok"
        ELSE reports' = reports /\ s_result' = "Err"
    /\ spc' = "returned"
    /\ UNCHANGED <<prog, debug_build, cmdVars, ctlVars, envVars, pollVars, hostVars>>
    /\ UNCHANGED <<child, server_process, restart_count, shutdown_rx, stops_sent,
                   event, sig_in_wait, relaunches, exit_reason>>

----------------------------------------------------------------------------
(* lib.rs: start_sidecar, run by the task spawned in setup *)

\* The pre-spawn check of port 4096: 30 attempts in a debug build, 2 in a
\* release build.
PrecheckAttempts ==
    IF debug_build THEN DEV_PRECHECK_ATTEMPTS ELSE RELEASE_PRECHECK_ATTEMPTS

\* lib.rs is_service_running -> bool: the client comes from
\* build().unwrap_or_default(), the answer is true for a success status only.
IsServiceRunning(client_ok, r) == ProbeReady(r)

\* is_service_running().await: one probe of port 4097.
HostProbeService ==
    /\ prog = "host"
    /\ hpc = "probe_service"
    /\ \E client_ok \in BOOLEAN, r \in HttpOutcomes :
        /\ svc_probe' = r
        /\ IF IsServiceRunning(client_ok, r)
           THEN hpc' = "store_using" /\ UNCHANGED pollVars
           ELSE hpc' = "precheck" /\ PollStart(PrecheckAttempts)
    /\ UNCHANGED <<prog, debug_build, cmdVars, ctlVars, envVars, svcVars>>
    /\ UNCHANGED <<qpc, using_service, backend_port, sidecar_handle, handle_lock,
                   h_child, taken, h_result, stop_calls, stops_done>>

\* state.using_service.store(true)
HostStoreUsing ==
    /\ prog = "host"
    /\ hpc = "store_using"
    /\ using_service' = TRUE
    /\ hpc' = "store_port"
    /\ UNCHANGED <<prog, debug_build, cmdVars, ctlVars, envVars, pollVars, svcVars>>
    /\ UNCHANGED <<qpc, backend_port, sidecar_handle, handle_lock, h_child, taken,
                   svc_probe, h_result, stop_calls, stops_done>>

\* HostStorePort without the `return Ok(4097)`: start_sidecar goes on to the
\* check of port 4096 and the spawn.
HostStorePort_noreturn ==
    /\ prog = "host"
    /\ hpc = "store_port"
    /\ backend_port' = SERVICE_PORT
    /\ hpc' = "precheck"
    /\ PollStart(PrecheckAttempts)
    /\ UNCHANGED <<prog, debug_build, cmdVars, ctlVars, envVars, svcVars>>
    /\ UNCHANGED <<qpc, using_service, sidecar_handle, handle_lock, h_child, taken,
                   svc_probe, h_result, stop_calls, stops_done>>

\* state.backend_port.store(4097); return Ok(4097)
HostStorePort ==
    /\ prog = "host"
    /\ hpc = "store_port"
    /\ backend_port' = SERVICE_PORT
    /\ h_result' = "Ok(4097)"
    /\ hpc' = "done"
    /\ UNCHANGED <<prog, debug_build, cmdVars, ctlVars, envVars, pollVars, svcVars>>
    /\ UNCHANGED <<qpc, using_service, sidecar_handle, handle_lock, h_child, taken,
                   svc_probe, stop_calls, stops_done>>

\* One iteration of wait_for_server's loop: a success returns true, any other
\* outcome sleeps 500 ms; after the last attempt the function returns false.
\* whenTrue and whenFalse are the caller's positions after each return.
WaitForServer(whenTrue, whenFalse) ==
    \E r \in HttpOutcomes :
        IF ProbeReady(r)
        THEN PollProbe(r, TRUE) /\ hpc' = whenTrue
        ELSE IF LastIteration(attempt, max_attempts)
        THEN PollProbe(r, TRUE) /\ hpc' = whenFalse
        ELSE PollProbe(r, FALSE) /\ hpc' = hpc

\* if wait_for_server(4096, n).await { return Ok(4096) }: a backend already
\* answers on the sidecar port, the spawn is skipped.
HostPrecheck ==
    /\ prog = "host"
    /\ hpc = "precheck"
    /\ WaitForServer("done", "spawn")
    /\ h_result' = IF hpc' = "done" THEN "Ok(4096)" ELSE h_result
    /\ UNCHANGED <<prog, debug_build, cmdVars, ctlVars, envVars, svcVars>>
    /\ UNCHANGED <<qpc, using_service, backend_port, sidecar_handle, handle_lock,
                   h_child, taken, svc_probe, stop_calls, stops_done>>

\* resource_dir()?, shell.sidecar(..)?, sidecar_command.spawn()?: each can
\* return Err; otherwise the child runs and is held in the local `child`.
HostSpawn ==
    /\ prog = "host"
    /\ hpc = "spawn"
    /\ \E o \in {"resource_dir_err", "sidecar_err", "spawn_err", "spawned"} :
        IF o = "spawned"
        THEN /\ procs' = Append(procs, "running")
             /\ h_child' = Len(procs) + 1
             /\ hpc' = "store_handle"
             /\ UNCHANGED h_result
        ELSE /\ h_result' = "Err"
             /\ hpc' = "done"
             /\ UNCHANGED <<procs, h_child>>
    /\ UNCHANGED <<prog, debug_build, cmdVars, ctlVars, shutdown_reqs, kills, pollVars, svcVars>>
    /\ UNCHANGED <<qpc, using_service, backend_port, sidecar_handle, handle_lock,
                   taken, svc_probe, stop_calls, stops_done>>

\* { let mut handle = state.sidecar_handle.lock().await; *handle = Some(child); }
\* The lock is awaited while stop_sidecar holds it.
HostStoreHandle ==
    /\ prog = "host"
    /\ hpc = "store_handle"
    /\ handle_lock = "free"
    /\ sidecar_handle' = h_child
    /\ h_child' = 0
    /\ PollStart(SIDECAR_READY_ATTEMPTS)
    /\ hpc' = "poll"
    /\ UNCHANGED <<prog, debug_build, cmdVars, ctlVars, envVars, svcVars>>
    /\ UNCHANGED <<qpc, using_service, backend_port, handle_lock, taken, svc_probe,
                   h_result, stop_calls, stops_done>>

\* if !wait_for_server(4096, 30).await { return Err(..) }  Ok(4096)
HostPoll ==
    /\ prog = "host"
    /\ hpc = "poll"
    /\ WaitForServer("done", "failed")
    /\ h_result' = IF hpc' = "done" THEN "Ok(4096)"
                   ELSE IF hpc' = "failed" THEN "Err" ELSE h_result
    /\ UNCHANGED <<prog, debug_build, cmdVars, ctlVars, envVars, svcVars>>
    /\ UNCHANGED <<qpc, using_service, backend_port, sidecar_handle, handle_lock,
                   h_child, taken, svc_probe, stop_calls, stops_done>>

----------------------------------------------------------------------------
(* lib.rs: stop_sidecar, called by the quit handler *)

\* A call of stop_sidecar begins.
HostStopCall ==
    /\ prog = "host"
    /\ qpc = "idle"
    /\ stop_calls < MaxStopCalls
    /\ stop_calls' = stop_calls + 1
    /\ qpc' = "check_using"
    /\ UNCHANGED <<prog, debug_build, cmdVars, ctlVars, envVars, pollVars, svcVars>>
    /\ UNCHANGED <<hpc, using_service, backend_port, sidecar_handle, handle_lock,
                   h_child, taken, svc_probe, h_result, stops_done>>

\* if state.using_service.load() { return Ok(()) }
HostStopCheckUsing ==
    /\ prog = "host"
    /\ qpc = "check_using"
    /\ IF using_service
       THEN qpc' = "idle" /\ stops_done' = stops_done + 1
       ELSE qpc' = "lock" /\ UNCHANGED stops_done
    /\ UNCHANGED <<prog, debug_build, cmdVars, ctlVars, envVars, pollVars, svcVars>>
    /\ UNCHANGED <<hpc, using_service, backend_port, sidecar_handle, handle_lock,
                   h_child, taken, svc_probe, h_result, stop_calls>>

\* HostStopTake without the `if let Some(child)`: the shutdown request and the
\* kill follow whether or not a child was stored.
HostStopTake_always ==
    /\ prog = "host"
    /\ qpc = "lock"
    /\ handle_lock = "free"
    /\ taken' = sidecar_handle
    /\ sidecar_handle' = 0
    /\ handle_lock' = "stop"
    /\ qpc' = "request"
    /\ UNCHANGED <<prog, debug_build, cmdVars, ctlVars, envVars, pollVars, svcVars>>
    /\ UNCHANGED <<hpc, using_service, backend_port, h_child, svc_probe, h_result,
                   stop_calls, stops_done>>

\* HostStopTake reading the handle without take(): the child stays stored.
HostStopTake_peek ==
    /\ prog = "host"
    /\ qpc = "lock"
    /\ handle_lock = "free"
    /\ IF sidecar_handle # 0
       THEN /\ taken' = sidecar_handle
            /\ handle_lock' = "stop"
            /\ qpc' = "request"
            /\ UNCHANGED stops_done
       ELSE /\ qpc' = "idle"
            /\ stops_done' = stops_done + 1
            /\ UNCHANGED <<taken, handle_lock>>
    /\ UNCHANGED <<prog, debug_build, cmdVars, ctlVars, envVars, pollVars, svcVars>>
    /\ UNCHANGED <<hpc, using_service, backend_port, sidecar_handle, h_child,
                   svc_probe, h_result, stop_calls>>

\* let mut handle = state.sidecar_handle.lock().await;
\* if let Some(child) = handle.take() { .. } else { "No sidecar process to stop" }
HostStopTake ==
    /\ prog = "host"
    /\ qpc = "lock"
    /\ handle_lock = "free"
    /\ IF sidecar_handle # 0
       THEN /\ taken' = sidecar_handle
            /\ sidecar_handle' = 0
            /\ handle_lock' = "stop"
            /\ qpc' = "request"
            /\ UNCHANGED stops_done
       ELSE /\ qpc' = "idle"
            /\ stops_done' = stops_done + 1
           
            /\ UNCHANGED <<taken, sidecar_handle, handle_lock>>
    /\ UNCHANGED <<prog, debug_build, cmdVars, ctlVars, envVars, pollVars, svcVars>>
    /\ UNCHANGED <<hpc, using_service, backend_port, h_child, svc_probe, h_result,
                   stop_calls>>

\* request_graceful_shutdown(backend_port).await: true on a success status only;
\* then the 2 s sleep, taken only after a successful request.
HostStopRequest ==
    /\ prog = "host"
    /\ qpc = "request"
    /\ \E r \in HttpOutcomes :
        /\ shutdown_reqs' = shutdown_reqs + 1
        /\ qpc' = IF r = "success" THEN "sleep" ELSE "kill"
    /\ UNCHANGED <<prog, debug_build, cmdVars, ctlVars, procs, kills, pollVars, svcVars>>
    /\ UNCHANGED <<hpc, using_service, backend_port, sidecar_handle, handle_lock,
                   h_child, taken, svc_probe, h_result, stop_calls, stops_done>>

\* tokio::time::sleep(2 s)
HostStopSleep ==
    /\ prog = "host"
    /\ qpc = "sleep"
    /\ qpc' = "kill"
    /\ UNCHANGED <<prog, debug_build, cmdVars, ctlVars, envVars, pollVars, svcVars>>
    /\ UNCHANGED <<hpc, using_service, backend_port, sidecar_handle, handle_lock,
                   h_child, taken, svc_probe, h_result, stop_calls, stops_done>>

\* let _ = child.kill(); the guard is dropped and Ok(()) returned.
HostStopKill ==
    /\ prog = "host"
    /\ qpc = "kill"
    /\ procs' = Killed(taken)
    /\ kills' = kills + 1
    /\ taken' = 0
    /\ handle_lock' = "free"
    /\ qpc' = "idle"
    /\ stops_done' = stops_done + 1
   
    /\ UNCHANGED <<prog, debug_build, cmdVars, ctlVars, shutdown_reqs, pollVars, svcVars>>
    /\ UNCHANGED <<hpc, using_service, backend_port, sidecar_handle, h_child,
                   svc_probe, h_result, stop_calls>>

----------------------------------------------------------------------------
(* commands/service.rs: the service manager and the elevated script *)

Ops == {"install", "uninstall", "start", "stop"}

\* The service's current state.
scm == Last(scm_trace)

\* The service goes to state s.
ScmTo(s) == scm_trace' = Append(scm_trace, s)

\* The service moves on by itself: a pending start completes or fails; a
\* running service leaves its loop (it has seen a Stop control, or has given up
\* on its child) and reports StopPending; a pending stop completes; a stopped
\* service marked for deletion goes.
ScmSettle ==
    /\ prog = "controller"
    /\ \/ scm = "StartPending" /\ ScmTo("Running") /\ UNCHANGED marked
       \/ scm = "StartPending" /\ ScmTo("Stopped") /\ UNCHANGED marked
       \/ scm = "Running" /\ ScmTo("StopPending") /\ UNCHANGED marked
       \/ scm = "StopPending" /\ ScmTo("Stopped") /\ UNCHANGED marked
       \/ scm = "Stopped" /\ marked /\ ScmTo("NotInstalled") /\ marked' = FALSE
    /\ UNCHANGED <<prog, debug_build, cmdVars, envVars, pollVars, svcVars, hostVars>>
    /\ UNCHANGED <<op, cpc, resource_dir_ok, exe_exists, script_exists, log_exists,
                   log_marks, epc, poll_i, elev_requests, log_reads, queries, seen,
                   c_result>>

\* What the script runs after its first echo.
FirstCommand(o) ==
    CASE o = "install" -> "create"
      [] o = "uninstall" -> "stop"
      [] o = "start" -> "start"
      [] o = "stop" -> "stop"

\* `echo ... > "{log}"`: the log is created or truncated.
ScriptEcho ==
    /\ prog = "controller"
    /\ epc = "echo"
    /\ log_exists' = TRUE
    /\ log_marks' = {}
    /\ epc' = FirstCommand(op)
    /\ UNCHANGED <<prog, debug_build, cmdVars, envVars, pollVars, svcVars, hostVars>>
    /\ UNCHANGED <<op, cpc, resource_dir_ok, exe_exists, scm_trace, marked, script_exists,
                   poll_i, elev_requests, log_reads, queries, seen, c_result>>

\* `if %errorlevel% neq 0 ( echo ERROR: ... >> "{log}" & exit /b )`
ScriptFail ==
    /\ log_exists' = TRUE
    /\ log_marks' = log_marks \cup {"ERROR"}
    /\ epc' = "exited"

\* install: `sc create ZerobyteService ...`; it fails when the service exists
\* (or for a reason of the service manager's), and the script then stops.
ScriptCreate ==
    /\ prog = "controller"
    /\ epc = "create"
    /\ \E refused \in BOOLEAN :
        IF scm = "NotInstalled" /\ ~refused
        THEN /\ ScmTo("Stopped")
             /\ epc' = "start"
             /\ UNCHANGED <<log_exists, log_marks>>
        ELSE /\ ScriptFail
             /\ UNCHANGED scm_trace
    /\ UNCHANGED <<prog, debug_build, cmdVars, envVars, pollVars, svcVars, hostVars>>
    /\ UNCHANGED <<op, cpc, resource_dir_ok, exe_exists, marked, script_exists,
                   poll_i, elev_requests, log_reads, queries, seen, c_result>>

\* `sc start ZerobyteService`: a stopped service begins to start. The install
\* script ignores the command's result, the start script checks it.
ScriptStart ==
    /\ prog = "controller"
    /\ epc = "start"
    /\ \E refused \in BOOLEAN :
        IF scm = "Stopped" /\ ~marked /\ ~refused
        THEN /\ ScmTo("StartPending")
             /\ epc' = "complete"
             /\ UNCHANGED <<log_exists, log_marks>>
        ELSE /\ UNCHANGED scm_trace
             /\ IF op = "start"
                THEN ScriptFail
                ELSE epc' = "complete" /\ UNCHANGED <<log_exists, log_marks>>
    /\ UNCHANGED <<prog, debug_build, cmdVars, envVars, pollVars, svcVars, hostVars>>
    /\ UNCHANGED <<op, cpc, resource_dir_ok, exe_exists, marked, script_exists,
                   poll_i, elev_requests, log_reads, queries, seen, c_result>>

\* `sc stop ZerobyteService`: the Stop control is delivered to a running
\* service, whose handler sends on the channel and returns; the service stays
\* Running until run_service reports StopPending (ScmSettle). The uninstall
\* script ignores the result (and goes on to delete after `timeout /t 3`), the
\* stop script checks it.
ScriptStop ==
    /\ prog = "controller"
    /\ epc = "stop"
    /\ \E refused \in BOOLEAN :
        IF scm = "Running" /\ ~refused
        THEN /\ UNCHANGED scm_trace
             /\ epc' = IF op = "uninstall" THEN "delete" ELSE "complete"
             /\ UNCHANGED <<log_exists, log_marks>>
        ELSE /\ UNCHANGED scm_trace
             /\ IF op = "stop"
                THEN ScriptFail
                ELSE epc' = "delete" /\ UNCHANGED <<log_exists, log_marks>>
    /\ UNCHANGED <<prog, debug_build, cmdVars, envVars, pollVars, svcVars, hostVars>>
    /\ UNCHANGED <<op, cpc, resource_dir_ok, exe_exists, marked, script_exists,
                   poll_i, elev_requests, log_reads, queries, seen, c_result>>

\* uninstall: `sc delete ZerobyteService`: a stopped service is removed, one
\* that still runs is marked for deletion; no service, no success.
ScriptDelete ==
    /\ prog = "controller"
    /\ epc = "delete"
    /\ \E refused \in BOOLEAN :
        IF scm # "NotInstalled" /\ ~marked /\ ~refused
        THEN /\ IF scm = "Stopped"
                THEN ScmTo("NotInstalled") /\ UNCHANGED marked
                ELSE marked' = TRUE /\ UNCHANGED scm_trace
             /\ epc' = "complete"
             /\ UNCHANGED <<log_exists, log_marks>>
        ELSE /\ ScriptFail
             /\ UNCHANGED <<scm_trace, marked>>
    /\ UNCHANGED <<prog, debug_build, cmdVars, envVars, pollVars, svcVars, hostVars>>
    /\ UNCHANGED <<op, cpc, resource_dir_ok, exe_exists, script_exists, poll_i,
                   elev_requests, log_reads, queries, seen, c_result>>

\* The script's last line: `echo <success message> >> "{log}"`.
ScriptComplete ==
    /\ prog = "controller"
    /\ epc = "complete"
    /\ log_exists' = TRUE
    /\ log_marks' = log_marks \cup {"DONE"}
    /\ epc' = "exited"
    /\ UNCHANGED <<prog, debug_build, cmdVars, envVars, pollVars, svcVars, hostVars>>
    /\ UNCHANGED <<op, cpc, resource_dir_ok, exe_exists, scm_trace, marked, script_exists,
                   poll_i, elev_requests, log_reads, queries, seen, c_result>>

----------------------------------------------------------------------------
(* commands/service.rs: install_service, uninstall_service, start_service,
   stop_service *)

\* ServiceStatus as get_service_status classifies the `sc query` output:
\* error 1060 means not installed, the token RUNNING means running.
Installed(s) == s # "NotInstalled"
Running(s) == s = "Running"

\* VerifyFails with install's condition inverted.
VerifyFails_inverted(o, s) ==
    CASE o = "install" -> Installed(s)
      [] o = "uninstall" -> Installed(s)
      [] o = "start" -> ~Running(s)
      [] o = "stop" -> Running(s)

\* The command's check of the status after the script: its error condition.
VerifyFails(o, s) ==
    CASE o = "install" -> ~Installed(s)
      [] o = "uninstall" -> Installed(s)
      [] o = "start" -> ~Running(s)
      [] o = "stop" -> Running(s)

\* ExeCheck without the exists() test.
ExeCheck_unchecked(dir_ok, exists) ==
    IF ~dir_ok THEN "Err(resource_dir)" ELSE "found"

\* install_service: resolve the resource directory, then
\* if !service_exe.exists() { return Err("Service executable not found ...") }
ExeCheck(dir_ok, exists) ==
    IF ~dir_ok THEN "Err(resource_dir)"
    ELSE IF ~exists THEN "Err(exe_not_found)"
    ELSE "found"

CtlResolve ==
    /\ prog = "controller"
    /\ cpc = "resolve"
    /\ IF ExeCheck(resource_dir_ok, exe_exists) = "found"
       THEN cpc' = "remove_log" /\ UNCHANGED c_result
       ELSE cpc' = "done" /\ c_result' = ExeCheck(resource_dir_ok, exe_exists)
    /\ UNCHANGED <<prog, debug_build, cmdVars, envVars, pollVars, svcVars, hostVars>>
    /\ UNCHANGED <<op, resource_dir_ok, exe_exists, scm_trace, marked, script_exists,
                   log_exists, log_marks, epc, poll_i, elev_requests, log_reads,
                   queries, seen>>

\* let _ = std::fs::remove_file(&log_path): the old log goes, unless the
\* removal fails.
CtlRemoveLog ==
    /\ prog = "controller"
    /\ cpc = "remove_log"
    /\ \E removed \in BOOLEAN :
        IF removed
        THEN log_exists' = FALSE /\ log_marks' = {}
        ELSE UNCHANGED <<log_exists, log_marks>>
    /\ cpc' = "write_script"
    /\ UNCHANGED <<prog, debug_build, cmdVars, envVars, pollVars, svcVars, hostVars>>
    /\ UNCHANGED <<op, resource_dir_ok, exe_exists, scm_trace, marked, script_exists, epc,
                   poll_i, elev_requests, log_reads, queries, seen, c_result>>

\* execute_elevated_script: std::fs::write(&script_path, script_content)?
\* std::fs::write creates (or truncates) the file and then writes: a failure
\* comes before the file is created, or after, leaving the file behind.
CtlWriteScript ==
    /\ prog = "controller"
    /\ cpc = "write_script"
    /\ \E o \in {"written", "not_created", "created_not_written"} :
        IF o = "written"
        THEN script_exists' = TRUE /\ cpc' = "elevate" /\ UNCHANGED c_result
        ELSE /\ cpc' = "done" /\ c_result' = "Err(write_script)"
             /\ script_exists' = (script_exists \/ o = "created_not_written")
    /\ UNCHANGED <<prog, debug_build, cmdVars, envVars, pollVars, svcVars, hostVars>>
    /\ UNCHANGED <<op, resource_dir_ok, exe_exists, scm_trace, marked, log_exists,
                   log_marks, epc, poll_i, elev_requests, log_reads, queries, seen>>

\* CtlElevate that goes on to poll the log after a refusal.
CtlElevate_continues ==
    /\ prog = "controller"
    /\ cpc = "elevate"
    /\ elev_requests' = elev_requests + 1
    /\ \E granted \in BOOLEAN :
        /\ epc' = IF granted THEN "echo" ELSE epc
        /\ cpc' = "poll" /\ poll_i' = 0 /\ UNCHANGED c_result
    /\ UNCHANGED <<prog, debug_build, cmdVars, envVars, pollVars, svcVars, hostVars>>
    /\ UNCHANGED <<op, resource_dir_ok, exe_exists, scm_trace, marked, script_exists,
                   log_exists, log_marks, log_reads, queries, seen>>

\* CtlElevate whose script runs although the elevation was refused.
CtlElevate_unelevated ==
    /\ prog = "controller"
    /\ cpc = "elevate"
    /\ elev_requests' = elev_requests + 1
    /\ \E granted \in BOOLEAN :
        IF granted
        THEN epc' = "echo" /\ cpc' = "poll" /\ poll_i' = 0 /\ UNCHANGED c_result
        ELSE cpc' = "done" /\ c_result' = "Err(elevation)"
             /\ epc' = "echo" /\ UNCHANGED poll_i
    /\ UNCHANGED <<prog, debug_build, cmdVars, envVars, pollVars, svcVars, hostVars>>
    /\ UNCHANGED <<op, resource_dir_ok, exe_exists, scm_trace, marked, script_exists,
                   log_exists, log_marks, log_reads, queries, seen>>

\* run_elevated(..)?: ShellExecuteW "runas"; a result above 32 starts the
\* script detached, any other result is the command's error.
CtlElevate ==
    /\ prog = "controller"
    /\ cpc = "elevate"
    /\ elev_requests' = elev_requests + 1
    /\ \E granted \in BOOLEAN :
        IF granted
        THEN epc' = "echo" /\ cpc' = "poll" /\ poll_i' = 0 /\ UNCHANGED c_result
        ELSE cpc' = "done" /\ c_result' = "Err(elevation)"
             /\ UNCHANGED <<epc, poll_i>>
    /\ UNCHANGED <<prog, debug_build, cmdVars, envVars, pollVars, svcVars, hostVars>>
    /\ UNCHANGED <<op, resource_dir_ok, exe_exists, scm_trace, marked, script_exists,
                   log_exists, log_marks, log_reads, queries, seen>>

\* std::fs::read_to_string(log_path) returns Ok: the log exists and this read
\* of it succeeded (it can fail on a log that exists: the open is refused, or
\* the text is not valid UTF-8).
ReadLogOk(read_ok) == log_exists /\ read_ok

\* The read succeeded and the text shows the script has ended: the success
\* message or "ERROR:".
LogSaysEnded(read_ok) == ReadLogOk(read_ok) /\ log_marks # {}

\* One iteration of `for _ in 0..10`: sleep 1 s, read the log, break when it
\* shows the end.
CtlPoll ==
    /\ prog = "controller"
    /\ cpc = "poll"
    /\ log_reads' = log_reads + 1
    /\ poll_i' = poll_i + 1
    /\ \E read_ok \in BOOLEAN :
        cpc' = IF LogSaysEnded(read_ok) \/ poll_i + 1 >= SCRIPT_WAIT_ITERATIONS
               THEN "check_log" ELSE "poll"
    /\ UNCHANGED <<prog, debug_build, cmdVars, envVars, pollVars, svcVars, hostVars>>
    /\ UNCHANGED <<op, resource_dir_ok, exe_exists, scm_trace, marked, script_exists,
                   log_exists, log_marks, epc, elev_requests, queries, seen,
                   c_result>>

\* After the loop: an "ERROR:" in a log that could be read is the command's
\* error; a log that cannot be read is passed over.
CtlCheckLog ==
    /\ prog = "controller"
    /\ cpc = "check_log"
    /\ \E read_ok \in BOOLEAN :
        IF ReadLogOk(read_ok) /\ "ERROR" \in log_marks
        THEN cpc' = "done" /\ c_result' = "Err(operation_failed)"
        ELSE cpc' = "query" /\ UNCHANGED c_result
    /\ UNCHANGED <<prog, debug_build, cmdVars, envVars, pollVars, svcVars, hostVars>>
    /\ UNCHANGED <<op, resource_dir_ok, exe_exists, scm_trace, marked, script_exists,
                   log_exists, log_marks, epc, poll_i, elev_requests, log_reads,
                   queries, seen>>

\* What `sc query ZerobyteService` prints: the service's state, error 1060
\* for a service that does not exist, or another failure of the query (access
\* denied, ...), which names neither 1060 nor a state.
ScQueryText(s, refused) ==
    IF refused THEN "FAILED 5"
    ELSE CASE s = "NotInstalled" -> "FAILED 1060"
           [] s = "Stopped" -> "STOPPED"
           [] s = "StartPending" -> "START_PENDING"
           [] s = "Running" -> "RUNNING"
           [] s = "StopPending" -> "STOP_PENDING"

\* get_service_status on that text: 1060 means not installed; otherwise the
\* service is installed, and running when the text holds RUNNING. The result
\* is written as the state a service with these two flags is in.
GetServiceStatus(text) ==
    IF text = "FAILED 1060" THEN "NotInstalled"
    ELSE IF text = "RUNNING" THEN "Running"
    ELSE "Stopped"

\* get_service_status().await? and the command's verdict on it: `sc` cannot be
\* run (the command's error), or its output is classified.
CtlVerify ==
    /\ prog = "controller"
    /\ cpc = "query"
    /\ queries' = queries + 1
    /\ \E o \in {"run_err", "refused", "answered"} :
        IF o = "run_err"
        THEN /\ c_result' = "Err(query)"
             /\ UNCHANGED seen
        ELSE /\ seen' = GetServiceStatus(ScQueryText(scm, o = "refused"))
             /\ c_result' = IF VerifyFails(op, seen') THEN "Err(verify)" ELSE "Ok"
    /\ cpc' = "done"
    /\ UNCHANGED <<prog, debug_build, cmdVars, envVars, pollVars, svcVars, hostVars>>
    /\ UNCHANGED <<op, resource_dir_ok, exe_exists, scm_trace, marked, script_exists,
                   log_exists, log_marks, epc, poll_i, elev_requests, log_reads>>

----------------------------------------------------------------------------
(* commands/service.rs: is_service_running *)

\* commands/service.rs is_service_running -> Result<bool, String>:
\* build().map_err(..)? returns the error of a client that cannot be built.
IsServiceRunningCommand(client_ok, r) ==
    IF ~client_ok THEN "Err(client)"
    ELSE IF ProbeReady(r) THEN "Ok(true)" ELSE "Ok(false)"

\* One call of the is_service_running command.
CmdIsServiceRunning ==
    /\ prog = "probe"
    /\ p_result = "none"
    /\ \E client_ok \in BOOLEAN, r \in HttpOutcomes :
        /\ p_outcome' = IF client_ok THEN r ELSE "client_err"
        /\ p_result' = IsServiceRunningCommand(client_ok, r)
    /\ UNCHANGED <<prog, debug_build, envVars, pollVars, svcVars, hostVars, ctlVars>>
    /\ UNCHANGED url_result

----------------------------------------------------------------------------
(* commands/mod.rs: get_backend_url, callable at any time while the host runs *)

DigitChar == <<"0", "1", "2", "3", "4", "5", "6", "7", "8", "9">>

\* Display of a u16: its decimal digits.
RECURSIVE Decimal(_)
Decimal(n) ==
    IF n < 10 THEN DigitChar[n + 1]
    ELSE Decimal(n \div 10) \o DigitChar[(n % 10) + 1]

\* format!("http://localhost:{}", port)
BackendUrl(port) == "http://localhost:" \o Decimal(port)

\* get_backend_url: load backend_port and return Ok(url). It does not look at
\* using_service and takes no lock.
GetBackendUrl ==
    /\ prog = "host"
    /\ url_result' = BackendUrl(backend_port)
    /\ UNCHANGED <<prog, debug_build, envVars, pollVars, svcVars, hostVars, ctlVars>>
    /\ UNCHANGED <<p_outcome, p_result>>

----------------------------------------------------------------------------
(* The specification *)

Init ==
    /\ prog \in {"service", "host", "controller", "probe"}
    /\ debug_build \in BOOLEAN
    /\ (prog # "host" => debug_build = FALSE)
    /\ procs = <<>>
    /\ shutdown_reqs = 0
    /\ kills = 0
    /\ attempt = 0
    /\ max_attempts = 0
    /\ probes = 0
    /\ fails = 0
    /\ poll_ret = "none"
    /\ spc = IF prog = "service" THEN "start" ELSE "off"
    /\ reports = <<>>
    /\ child = 0
    /\ server_process = 0
    /\ restart_count = 0
    /\ shutdown_rx = 0
    /\ stops_sent = 0
    /\ event = "none"
    /\ sig_in_wait = FALSE
    /\ relaunches = 0
    /\ exit_reason = "none"
    /\ s_result = "none"
    /\ hpc = IF prog = "host" THEN "probe_service" ELSE "off"
    /\ qpc = IF prog = "host" THEN "idle" ELSE "off"
    /\ using_service = FALSE
    /\ backend_port = SIDECAR_PORT
    /\ sidecar_handle = 0
    /\ handle_lock = "free"
    /\ h_child = 0
    /\ taken = 0
    /\ svc_probe = "none"
    /\ h_result = "none"
    /\ stop_calls = 0
    /\ stops_done = 0
    /\ op \in IF prog = "controller" THEN Ops ELSE {"none"}
    /\ cpc = IF prog # "controller" THEN "off"
             ELSE IF op = "install" THEN "resolve" ELSE "remove_log"
    /\ resource_dir_ok \in BOOLEAN
    /\ exe_exists \in BOOLEAN
    /\ (op # "install" => resource_dir_ok /\ exe_exists)
    /\ scm_trace \in IF prog = "controller"
                     THEN {<<"NotInstalled">>, <<"Stopped">>, <<"Running">>}
                     ELSE {<<"NotInstalled">>}
    /\ marked = FALSE
    /\ script_exists = FALSE
    /\ log_exists \in IF prog = "controller" THEN BOOLEAN ELSE {FALSE}
    /\ log_marks \in IF log_exists THEN {{}, {"ERROR"}, {"DONE"}} ELSE {{}}
    /\ epc = IF prog = "controller" THEN "none" ELSE "off"
    /\ poll_i = 0
    /\ elev_requests = 0
    /\ log_reads = 0
    /\ queries = 0
    /\ seen = "none"
    /\ c_result = "none"
    /\ p_outcome = "none"
    /\ p_result = "none"
    /\ url_result = "none"

Next ==
    \/ ChildExit
    \/ SendStop
    \/ SvcStart
    \/ SvcFindExe
    \/ SvcSpawn
    \/ SvcPoll
    \/ SvcReportRunning
    \/ SvcTryRecv
    \/ SvcTryWait
    \/ SvcSleepMonitor
    \/ SvcCrashed
    \/ SvcBackoff
    \/ SvcReportStopPending
    \/ SvcStopRequest
    \/ SvcStopGrace
    \/ SvcStopCheck
    \/ SvcStopKill
    \/ SvcStopWait
    \/ SvcReportStopped
    \/ HostProbeService
    \/ HostStoreUsing
    \/ HostStorePort
    \/ HostPrecheck
    \/ HostSpawn
    \/ HostStoreHandle
    \/ HostPoll
    \/ HostStopCall
    \/ HostStopCheckUsing
    \/ HostStopTake
    \/ HostStopRequest
    \/ HostStopSleep
    \/ HostStopKill
    \/ ScmSettle
    \/ ScriptEcho
    \/ ScriptCreate
    \/ ScriptStart
    \/ ScriptStop
    \/ ScriptDelete
    \/ ScriptComplete
    \/ CtlResolve
    \/ CtlRemoveLog
    \/ CtlWriteScript
    \/ CtlElevate
    \/ CtlPoll
    \/ CtlCheckLog
    \/ CtlVerify
    \/ CmdIsServiceRunning
    \/ GetBackendUrl

Spec == Init /\ [][Next]_vars

\* The steps of the supervisor thread (run_service and what it calls).
SvcStep ==
    \/ SvcStart
    \/ SvcFindExe
    \/ SvcSpawn
    \/ SvcPoll
    \/ SvcReportRunning
    \/ SvcTryRecv
    \/ SvcTryWait
    \/ SvcSleepMonitor
    \/ SvcCrashed
    \/ SvcBackoff
    \/ SvcReportStopPending
    \/ SvcStopRequest
    \/ SvcStopGrace
    \/ SvcStopCheck
    \/ SvcStopKill
    \/ SvcStopWait
    \/ SvcReportStopped

\* The service with a supervisor thread that keeps running: its sleeps, probes
\* (each with a timeout) and process waits end, so a step it can take is
\* taken. Nothing is assumed of the child's exit or of the Stop control.
LiveInit == Init /\ prog = "service"
LiveNext == ChildExit \/ SendStop \/ SvcStep
LiveSpec == LiveInit /\ [][LiveNext]_vars /\ WF_vars(SvcStep)

----------------------------------------------------------------------------
(* Properties *)

\* C1: in run_service, crash number n <= MAX_RESTART_ATTEMPTS leads to a
\* relaunch, and a relaunch whose readiness poll succeeds resumes monitoring
\* with the new child; crash number MAX_RESTART_ATTEMPTS + 1 leaves the loop
\* (gave up); once the loop is left no relaunch and no spawn follows; the
\* relaunches of a run are at most MAX_RESTART_ATTEMPTS.
C1_BoundedRestarts ==
    [][ /\ relaunches' <= MAX_RESTART_ATTEMPTS
        /\ (restart_count' = restart_count + 1 /\ restart_count' <= MAX_RESTART_ATTEMPTS
              => spc' = "backoff")
        /\ (restart_count' = restart_count + 1
              /\ restart_count' = MAX_RESTART_ATTEMPTS + 1
              => spc' = "report_stop_pending" /\ exit_reason' = "gave_up")
        /\ (relaunches' # relaunches => relaunches' = restart_count /\ spc' = "spawn")
        /\ (spc = "poll" /\ ~InitialLaunch /\ poll_ret' = "true"
              => spc' = "try_recv" /\ server_process' = child)
        /\ (exit_reason # "none"
              => relaunches' = relaunches /\ Len(procs') = Len(procs))
      ]_vars

\* C1 witness: the loop was left on crash MAX_RESTART_ATTEMPTS + 1, after
\* MAX_RESTART_ATTEMPTS relaunches that each returned to monitoring.
C1_Witness ==
    /\ exit_reason = "gave_up"
    /\ relaunches = MAX_RESTART_ATTEMPTS
    /\ Len(procs) = MAX_RESTART_ATTEMPTS + 1

\* C2: a Stop sent while the supervisor is inside wait_for_shutdown_or_crash
\* is never followed by a Crashed event of that wait; stated for the case the
\* claim names, the child's exit being what the wait reports.
C2_SignalPriority == (spc = "crashed" /\ event = "Crashed(code)") => ~sig_in_wait

\* C3: when start_sidecar's probe of port 4097 answers with success, no child
\* is spawned in that run, the handle stays None, and start_sidecar returns
\* 4097 with using_service set.
C3_ExternalAttach ==
    (prog = "host" /\ svc_probe = "success") =>
        /\ procs = <<>>
        /\ sidecar_handle = 0
        /\ h_child = 0
        /\ hpc \in {"store_using", "store_port", "done"}
        /\ (hpc = "done" =>
              h_result = "Ok(4097)" /\ using_service /\ backend_port = SERVICE_PORT)

\* C3 witness: start_sidecar returned after a successful probe of the service.
C3_Witness == hpc = "done" /\ svc_probe = "success" /\ using_service

\* The host skipped the spawn: start_sidecar returned Ok(4096) for a backend
\* that already answered.
SkippedSpawn == h_result = "Ok(4096)" /\ procs = <<>>

\* C4: the host sends a shutdown request or a kill only for a child it
\* spawned; attached to the service, or having skipped the spawn, stop_sidecar
\* sends no request and kills nothing.
C4_OnlyOwnChild ==
    prog = "host" =>
        /\ (shutdown_reqs > 0 \/ kills > 0 => Len(procs) > 0)
        /\ (qpc \in {"request", "sleep", "kill"} => taken \in 1..Len(procs))
        /\ (using_service \/ SkippedSpawn => shutdown_reqs = 0 /\ kills = 0)

\* C4 witness: stop_sidecar has returned in a host attached to the service.
C4_Witness == using_service /\ h_result = "Ok(4097)" /\ stops_done >= 1

\* The supervisor is stopped: a stop_sidecar call has returned and no child
\* handle is held.
Stopped == stops_done >= 1 /\ sidecar_handle = 0 /\ taken = 0

\* C5: a stop_sidecar call leaves no handle behind when it returns, and every
\* step of a stop_sidecar call on a stopped supervisor sends no request, kills
\* nothing and changes no state.
C5_StopIdempotent ==
    [][ /\ (stops_done' > stops_done => sidecar_handle' = 0 /\ taken' = 0)
        /\ (Stopped /\ qpc' # qpc =>
              /\ shutdown_reqs' = shutdown_reqs
              /\ kills' = kills
              /\ procs' = procs
              /\ sidecar_handle' = sidecar_handle
              /\ taken' = taken
              /\ using_service' = using_service
              /\ backend_port' = backend_port)
      ]_vars

\* C5 witness: two stop_sidecar calls have returned, the first killed the
\* sidecar, the second did nothing.
C5_Witness == stops_done = 2 /\ kills = 1 /\ shutdown_reqs = 1 /\ Stopped

\* C6: a readiness poll issues at most max_attempts probes, none after a
\* success; it returns true with the first success (k failures, then k + 1
\* probes) and false exactly when all max_attempts probes failed.
C6_PollContract ==
    /\ probes <= max_attempts
    /\ (poll_ret = "none" /\ max_attempts > 0 => probes = fails /\ attempt = probes + 1)
    /\ (poll_ret = "true" => probes = fails + 1)
    /\ (poll_ret = "false" => fails = max_attempts /\ probes = max_attempts)

\* C6 witness: three failed probes, then a success on the fourth.
C6_Witness == poll_ret = "true" /\ fails = 3 /\ probes = 4

\* C7: after a readiness poll of a spawned child has used up its attempts, the
\* child is not left running (service: start_server_process; host:
\* start_sidecar).
C7_TimeoutKillsChild ==
    /\ (prog = "service" /\ poll_ret = "false" => procs[Len(procs)] # "running")
    /\ (prog = "host" /\ hpc = "failed" =>
          \A i \in 1..Len(procs) : procs[i] # "running")

\* C8 as stated: restart_count never exceeds the bound and is equal to it when
\* the supervisor gives up.
C8_CounterAtBound ==
    /\ restart_count <= MAX_RESTART_ATTEMPTS
    /\ (exit_reason = "gave_up" => restart_count = MAX_RESTART_ATTEMPTS)

\* C8 amended: the supervisor gives up with restart_count one above the bound,
\* after exactly MAX_RESTART_ATTEMPTS relaunches; restart_count never exceeds
\* the bound by more than one.
C8_CounterPastBound ==
    /\ restart_count <= MAX_RESTART_ATTEMPTS + 1
    /\ (exit_reason = "gave_up" =>
          restart_count = MAX_RESTART_ATTEMPTS + 1 /\ relaunches = MAX_RESTART_ATTEMPTS)

\* C8 witness: run_service has returned after giving up.
C8_Witness == exit_reason = "gave_up" /\ spc = "returned" /\ s_result = "Ok"

\* C9: install with the service executable absent ends at once with the
\* executable-not-found error: no script, no elevation request, no read of
\* the log, no status query.
C9_InstallExeAbsent ==
    (prog = "controller" /\ op = "install" /\ resource_dir_ok /\ ~exe_exists) =>
        /\ cpc \in {"resolve", "done"}
        /\ (cpc = "done" => c_result = "Err(exe_not_found)")
        /\ ~script_exists
        /\ elev_requests = 0
        /\ epc = "none"
        /\ log_reads = 0
        /\ queries = 0

\* C9 witness: install has returned the executable-not-found error.
C9_Witness == op = "install" /\ cpc = "done" /\ c_result = "Err(exe_not_found)"

\* The status as get_service_status reports it.
Classified(s) ==
    IF ~Installed(s) THEN "NotInstalled" ELSE IF Running(s) THEN "Running" ELSE "Stopped"

\* The reported statuses a trace goes through, without repetitions.
RECURSIVE Observed(_)
Observed(t) ==
    IF Len(t) <= 1 THEN [i \in 1..Len(t) |-> Classified(t[i])]
    ELSE LET rest == Observed(Tail(t))
         IN IF Classified(t[1]) = rest[1] THEN rest ELSE <<Classified(t[1])>> \o rest

\* C10: an install (executable present, elevation granted) returns Ok when it
\* ends with the service running, the script having run to its end and the
\* service having gone from NotInstalled to Stopped to Running before the
\* command's last step.
C10_InstallSucceeds ==
    [][ (/\ prog = "controller" /\ op = "install"
         /\ cpc # "done" /\ cpc' = "done"
         /\ elev_requests = 1 /\ epc = "exited"
         /\ scm = "Running"
         /\ Observed(scm_trace) = <<"NotInstalled", "Stopped", "Running">>)
          => c_result' = "Ok" ]_vars

\* What holds of such an install: whenever its final query was run, the
\* result is Ok, whatever the query's text said of a service that exists.
C10_AnsweredInstallSucceeds ==
    [][ (/\ prog = "controller" /\ op = "install"
         /\ cpc # "done" /\ cpc' = "done"
         /\ elev_requests = 1 /\ epc = "exited"
         /\ scm = "Running"
         /\ Observed(scm_trace) = <<"NotInstalled", "Stopped", "Running">>)
          => c_result' \in {"Ok", "Err(query)"} ]_vars

\* Such an install has returned Ok, the script having run to its end.
C10_Witness ==
    /\ op = "install" /\ cpc = "done" /\ c_result = "Ok"
    /\ seen = "Running" /\ epc = "exited"
    /\ Observed(scm_trace) = <<"NotInstalled", "Stopped", "Running">>

\* The status an operation is to end in, as ServiceStatus tells the states
\* apart (installed, running).
ExpectedEnd(o) ==
    CASE o = "uninstall" -> "NotInstalled"
      [] o = "start" -> "Running"
      [] o = "stop" -> "Stopped"
      [] o = "install" -> "Running"

\* C11: uninstall, start and stop return Ok only if the status their final
\* query observed is the operation's end state: NotInstalled after uninstall,
\* Running after start, Stopped (installed, not running) after stop; when the
\* polling window ran out before that state was reached, the result is an
\* error.
C11_EndStateSuccess ==
    (/\ prog = "controller" /\ op \in {"uninstall", "start", "stop"}
     /\ cpc = "done" /\ c_result = "Ok")
        => /\ queries = 1
           /\ Classified(seen) = ExpectedEnd(op)

\* C12: when install, uninstall, start or stop has returned, the script file
\* it wrote and the log file its script wrote are gone.
C12_ScopedCleanup ==
    (prog = "controller" /\ cpc = "done") =>
        /\ ~script_exists
        /\ (epc \notin {"none", "echo"} => ~log_exists)

\* C13: in the shutdown of an owned child the grace wait follows the shutdown
\* request whatever its outcome, and the step that kills is entered only from
\* the grace wait (host: stop_sidecar; service: stop_server_gracefully).
C13_GraceAlways ==
    [][ /\ (prog = "host" /\ qpc = "request" /\ qpc' # qpc => qpc' = "sleep")
        /\ (prog = "host" /\ qpc' = "kill" /\ qpc # "kill" => qpc = "sleep")
        /\ (prog = "service" /\ shutdown_reqs' > shutdown_reqs => spc' = "stop_grace")
      ]_vars

\* C13 for the service alone: every shutdown request of stop_server_gracefully
\* is followed by the grace sleep.
C13_ServiceGrace ==
    [][ prog = "service" /\ shutdown_reqs' > shutdown_reqs => spc' = "stop_grace" ]_vars

\* C14: a child that was sent a kill during shutdown has been reaped when the
\* shutdown routine has returned; stated for stop_sidecar of the desktop host.
C14_KillWaitsReap ==
    (prog = "host" /\ qpc = "idle") => \A i \in 1..Len(procs) : procs[i] # "killed"

\* The children that run.
RunningChildren(ps) == {i \in 1..Len(ps) : ps[i] = "running"}

\* C15: every spawn of a backend child follows a readiness poll of its port
\* that found no instance, and at most one spawned backend runs at any time.
C15_ProbeBeforeLaunch ==
    [][ /\ (Len(procs') > Len(procs) => poll_ret = "false" /\ probes >= 1)
        /\ Cardinality(RunningChildren(procs')) <= 1
      ]_vars

\* C15 restricted to the desktop host, whose start_sidecar polls port 4096
\* before it spawns.
C15_HostProbesFirst ==
    [][ prog = "host" =>
          /\ (Len(procs') > Len(procs) => poll_ret = "false" /\ probes >= 1)
          /\ Cardinality(RunningChildren(procs')) <= 1
      ]_vars

\* C16: within one run of run_service restart_count never decreases; each
\* detected crash adds exactly one to it, and nothing else changes it: not the
\* backoff, not a successful relaunch, not the monitoring that follows.
C16_CounterMonotone ==
    [][ /\ restart_count' >= restart_count
        /\ (spc = "crashed" /\ spc' # spc => restart_count' = restart_count + 1)
        /\ (restart_count' # restart_count => spc = "crashed")
      ]_vars

\* C16 witness: monitoring after the second successful relaunch, the counter
\* still at two.
C16_Witness ==
    /\ spc = "sleep_monitor" /\ restart_count = 2 /\ relaunches = 2
    /\ server_process = 3 /\ procs[3] = "running"

\* C17: a refused elevation ends the operation at once with the elevation
\* error: the elevation is requested once and never again, the log is not
\* polled, the status is not queried, and the error stays the result.
C17_ElevationRefused ==
    [][ /\ elev_requests' <= 1
        /\ (cpc = "elevate" /\ cpc' # cpc /\ epc' = "none"
              => cpc' = "done" /\ c_result' = "Err(elevation)")
        /\ (c_result' = "Err(elevation)"
              => elev_requests' = 1 /\ log_reads' = 0 /\ queries' = 0 /\ cpc' = "done")
        /\ (c_result = "Err(elevation)" => c_result' = "Err(elevation)")
      ]_vars

\* C17 witness: an operation has returned the elevation error.
C17_Witness ==
    /\ cpc = "done" /\ c_result = "Err(elevation)" /\ elev_requests = 1
    /\ script_exists /\ epc = "none"

\* C18: a health probe hands its caller a boolean for every outcome, a client
\* that cannot be built included: true for a success status, false otherwise
\* (the is_service_running command, and is_service_running of the host).
C18_ProbeNeverErrs ==
    /\ (prog = "probe" /\ p_result # "none"
          => p_result = IF p_outcome = "success" THEN "Ok(true)" ELSE "Ok(false)")
    /\ (prog = "host" /\ svc_probe # "none"
          => (svc_probe = "success") = (hpc \in {"store_using", "store_port"}
                                          \/ using_service))

\* C18 for the outcomes of a request that was sent: the command answers
\* Ok(true) for a success status and Ok(false) for any other outcome.
C18_RequestOutcomes ==
    (prog = "probe" /\ p_result # "none" /\ p_outcome # "client_err")
        => p_result = IF p_outcome = "success" THEN "Ok(true)" ELSE "Ok(false)"

\* C19: while the service reports Running the Stop handler can complete in
\* every position of the supervisor loop (monitoring sleep, backoff, readiness
\* poll of a relaunch included), and the loop's receive returns at once whether
\* or not a signal is there.
C19_StopNeverBlocks ==
    /\ (/\ prog = "service" /\ reports # <<>> /\ Last(reports) = "Running"
        /\ stops_sent < MaxStopSignals)
          => ENABLED SendStop
    /\ (prog = "service" /\ spc = "try_recv" => ENABLED SvcTryRecv)

\* C19 witness: a Stop was delivered while the loop was in the restart backoff.
C19_Witness == spc = "backoff" /\ stops_sent = 1 /\ shutdown_rx = 1 /\ ~sig_in_wait

\* C20: once a Stop has been delivered to a supervisor that reported Running,
\* Stopped is eventually reported, wherever the loop was (monitoring, backoff,
\* readiness poll of a relaunch). Stated up to the report itself: the run may
\* end with the Stopped report attempted and refused by the service manager.
C20_EventuallyStopped ==
    (prog = "service" /\ stops_sent > 0)
        ~> \/ reports # <<>> /\ Last(reports) = "Stopped"
           \/ spc = "returned" /\ reports = <<"StartPending", "Running", "StopPending">>

\* What holds of a delivered Stop: the run ends, with Stopped reported or with
\* the error of a failed status report; and a signal that is pending when the
\* loop comes to its receive is taken by that receive.
C20_StoppedOrReportError ==
    /\ (prog = "service" /\ stops_sent > 0)
          ~> (spc = "returned"
                /\ (s_result = "Err" \/ (reports # <<>> /\ Last(reports) = "Stopped")))
    /\ [][ spc = "try_recv" /\ shutdown_rx > 0 /\ spc' # spc
             => event' = "Shutdown" /\ spc' = "report_stop_pending" ]_vars

\* Stopped was reported for a Stop that arrived while the loop was outside its
\* wait (crash handling, backoff or relaunch).
C20_Witness ==
    /\ reports # <<>> /\ Last(reports) = "Stopped"
    /\ stops_sent = 1 /\ ~sig_in_wait /\ relaunches >= 1 /\ exit_reason = "shutdown"

\* C21: after the grace period a kill is sent only to a child that still runs;
\* a child that exited meanwhile is sent none. Stated for stop_sidecar of the
\* desktop host.
C21_RecheckBeforeKill ==
    [][ prog = "host" /\ kills' > kills => procs[taken] = "running" ]_vars

\* C22: a failed query of the child's status during monitoring is a crash
\* with unknown exit code and no fatal error: the wait ends only in the sleep
\* or in a Crashed event, and Crashed(None) takes the path of every crash
\* (count, bound check, then backoff and relaunch or the end of the loop).
C22_QueryFailureIsCrash ==
    [][ /\ (spc = "try_wait" /\ spc' # spc
              => /\ spc' \in {"sleep_monitor", "crashed"}
                 /\ s_result' = s_result
                 /\ (spc' = "crashed" => event' \in {"Crashed(code)", "Crashed(None)"}))
        /\ (spc = "crashed" /\ event = "Crashed(None)" /\ spc' # spc
              => /\ restart_count' = restart_count + 1
                 /\ spc' = IF restart_count' > MAX_RESTART_ATTEMPTS
                           THEN "report_stop_pending" ELSE "backoff")
        /\ (spc = "backoff" /\ event = "Crashed(None)" /\ spc' # spc
              => spc' = "spawn" /\ relaunches' = relaunches + 1)
      ]_vars

\* C22 witness: a relaunch is under way after a failed query, the child whose
\* status could not be read still running.
C22_Witness ==
    /\ event = "Crashed(None)" /\ spc = "poll" /\ relaunches = 1 /\ restart_count = 1
    /\ procs = <<"running", "running">>

\* The relaunch after a crash is under way (start_server_process called from
\* the crash branch).
InRelaunch == prog = "service" /\ ~InitialLaunch /\ spc \in {"spawn", "poll"}

\* C23: a relaunch that fails (log file, spawn, client, or readiness never
\* confirmed) ends supervision at once, whatever the counter: the loop is left
\* for the shutdown sequence, and no relaunch and no spawn follows.
C23_RelaunchFailureEnds ==
    [][ /\ (InRelaunch /\ spc' \notin {"spawn", "poll", "try_recv"}
              => /\ spc' = "report_stop_pending"
                 /\ exit_reason' = "relaunch_failed"
                 /\ restart_count' = restart_count)
        /\ (exit_reason = "relaunch_failed"
              => /\ exit_reason' = exit_reason
                 /\ relaunches' = relaunches
                 /\ Len(procs') = Len(procs)
                 /\ spc' \notin {"backoff", "spawn", "poll", "try_recv"})
      ]_vars

\* C23 witness: run_service has returned after its first relaunch failed, the
\* counter at one.
C23_Witness ==
    /\ exit_reason = "relaunch_failed" /\ restart_count = 1 /\ relaunches = 1
    /\ spc = "returned"

\* C24: a shutdown signal delivered while the supervisor handles a crash, sits
\* in the restart backoff or is about to relaunch stops it before any launch:
\* no child is spawned while a signal is pending. Stated for the relaunch that
\* follows an observed exit of the child, and for a signal that arrived after
\* the wait had returned.
C24_NoSpawnAfterSignal ==
    [][ (/\ prog = "service" /\ event = "Crashed(code)" /\ ~sig_in_wait
         /\ Len(procs') > Len(procs))
          => shutdown_rx = 0 ]_vars

\* C25: whenever run_service has returned after reporting StartPending, its
\* last report is Stopped.
C25_StoppedReported ==
    (prog = "service" /\ spc = "returned" /\ reports # <<>>)
        => Last(reports) = "Stopped"

\* C26: an operation whose polling loop has ended (by a marker in the log or
\* after its last iteration) has queried the status exactly once when it
\* returns, and its result is the verdict on that query; install succeeds on
\* a service seen installed but not running. Stated for an operation whose
\* script has run to its end.
C26_FinalQuery ==
    (prog = "controller" /\ cpc = "done" /\ log_reads > 0 /\ epc = "exited") =>
        /\ queries = 1
        /\ c_result \in {"Ok", "Err(verify)", "Err(query)"}
        /\ (seen # "none" =>
              c_result = IF VerifyFails(op, seen) THEN "Err(verify)" ELSE "Ok")
        /\ (op = "install" /\ seen \in {"Stopped", "StartPending", "StopPending"}
              => c_result = "Ok")

\* C26 without the case of "ERROR:" in the log: an operation that gets past
\* the log check queries once and returns the verdict on that query.
C26_QueryUnlessError ==
    (/\ prog = "controller" /\ cpc = "done" /\ log_reads > 0
     /\ c_result # "Err(operation_failed)") =>
        /\ queries = 1
        /\ c_result \in {"Ok", "Err(verify)", "Err(query)"}
        /\ (seen # "none" =>
              c_result = IF VerifyFails(op, seen) THEN "Err(verify)" ELSE "Ok")
        /\ (op = "install" /\ seen \in {"Stopped", "StartPending", "StopPending"}
              => c_result = "Ok")

\* C27: no step of a command changes the service's status: not the status
\* query, not the health probe, not an operation that ends before or at a
\* refused elevation. The status changes in steps of the elevated script, which
\* runs only after a granted elevation, and by the service's own transitions.
C27_StatusOnlyByElevation ==
    [][ /\ (cpc' # cpc => scm_trace' = scm_trace /\ marked' = marked)
        /\ (queries' # queries => scm_trace' = scm_trace /\ marked' = marked)
        /\ (p_result' # p_result => scm_trace' = scm_trace /\ marked' = marked)
        /\ (epc' # epc /\ epc' # "echo"
              => /\ elev_requests = 1
                 /\ c_result \notin {"Err(elevation)", "Err(exe_not_found)",
                                     "Err(resource_dir)", "Err(write_script)"})
        /\ (scm_trace' # scm_trace /\ epc' = epc
              => UNCHANGED <<cpc, c_result, queries, elev_requests, log_reads,
                             script_exists, log_exists, log_marks, seen>>)
        /\ (c_result' \in {"Err(elevation)", "Err(exe_not_found)",
                           "Err(resource_dir)", "Err(write_script)"}
              => epc' = "none")
      ]_vars

\* C27 witness: an operation has returned the elevation error, the service as
\* it was, the script never started.
C27_Witness ==
    /\ cpc = "done" /\ c_result = "Err(elevation)" /\ op = "start"
    /\ scm_trace = <<"Stopped">> /\ epc = "none" /\ queries = 0

\* C28: when start_sidecar and the quit handler's one stop_sidecar have both
\* completed, in whatever order their steps ran, no sidecar that start_sidecar
\* spawned is still running.
C28_StartStopRace ==
    (/\ prog = "host" /\ hpc \in {"done", "failed"}
     /\ stop_calls = 1 /\ stops_done = 1)
        => RunningChildren(procs) = {}

\* C29: when the service has reported Stopped, none of the children it
\* spawned in the session is still running. Stated for the session that ends
\* with a relaunch, after an observed exit, whose readiness poll timed out.
C29_NoChildAtStopped ==
    (/\ prog = "service" /\ reports # <<>> /\ Last(reports) = "Stopped"
     /\ exit_reason = "relaunch_failed" /\ event = "Crashed(code)"
     /\ poll_ret = "false")
        => RunningChildren(procs) = {}

\* C30: when the loop was left because the bound was exceeded or a relaunch
\* failed, the supervised child's exit already observed, no shutdown request
\* is sent.
C30_RequestOnlyIfAlive ==
    [][ (/\ prog = "service" /\ exit_reason \in {"gave_up", "relaunch_failed"}
         /\ procs[server_process] = "reaped")
          => shutdown_reqs' = shutdown_reqs ]_vars

\* C31: using_service and backend_port agree whenever another task can look:
\* a get_backend_url call made while using_service is set returns the service
\* URL (port 4097), and one made while it is clear returns the sidecar URL.
C31_UrlMatchesMode ==
    [][ (prog = "host" /\ url_result' # url_result)
          => url_result' = BackendUrl(IF using_service THEN SERVICE_PORT
                                      ELSE SIDECAR_PORT) ]_vars

\* The two stores of the service branch, taken together, leave the pair
\* consistent: after start_sidecar has returned, backend_port is 4097 exactly
\* when using_service is set.
C31_ConsistentAfterStart ==
    (prog = "host" /\ hpc \in {"done", "failed"})
        => (using_service <=> backend_port = SERVICE_PORT)

\* The order of the states run_service reports.
StateOrder == <<"StartPending", "Running", "StopPending", "Stopped">>

\* C32: the states reported in one run form a prefix of StartPending, Running,
\* StopPending, Stopped; from the entry into the main loop until the loop is
\* left (waiting, crash detection, backoff, relaunch) the last report is
\* Running; and Stopped is reported only once the shutdown routine has
\* returned, with the supervised child no longer running.
C32_ReportsInOrder ==
    prog = "service" =>
        /\ Len(reports) <= Len(StateOrder)
        /\ \A i \in 1..Len(reports) : reports[i] = StateOrder[i]
        /\ (\/ spc \in {"try_recv", "try_wait", "sleep_monitor", "crashed", "backoff"}
            \/ InRelaunch)
              => reports = <<"StartPending", "Running">>
        /\ spc \in {"stop_request", "stop_grace", "stop_check", "stop_kill",
                    "stop_kill_err", "stop_wait",
                    "report_stopped"}
              => reports = <<"StartPending", "Running", "StopPending">>
        /\ (\E i \in 1..Len(reports) : reports[i] = "Stopped")
              => spc = "returned" /\ procs[server_process] # "running"

\* A run that crashed, relaunched and later reported all four states.
C32_Witness ==
    prog = "service" /\ relaunches >= 1 /\ reports = StateOrder


====
